---- MODULE Spec2Model ----
(***************************************************************************)
(* Model of pkg/hook/hook.go: hookData (a mutex-protected hash plus a      *)
(* capacity-1 event channel), HookRunner.Run (the consumer loop with       *)
(* retry and backoff), the one-shot hasCompletedOnce channel and           *)
(* HookRunner.WaitForCompletion.                                           *)
(*                                                                         *)
(* The Run goroutine is one process whose position is pc:                  *)
(*   "idle"    blocked in `for range r.data.events()`          (line 119)  *)
(*   "get"     about to call r.data.get() after an event       (line 125)  *)
(*   "reget"   about to call r.data.get() after time.Sleep     (line 125)  *)
(*   "do"      inside r.hook.Do(ctx, hash)                     (line 130)  *)
(*   "result"  Do returned; metric / lastHash not yet updated  (131, 137)  *)
(*   "report"  entering sendCompletedOnceMessageIfApplicable   (line 152)  *)
(*   "close"   value sent on hasCompletedOnce, before close    (line 154)  *)
(*   "sleep"   inside time.Sleep(r.backoff)                    (line 135)  *)
(*   "exited"  goroutine ended by runtime.Goexit()             (line 155)  *)
(*   "panic"   goroutine panicked (send on / close of a closed channel)    *)
(* Producers are goroutines calling Send; callers of WaitForCompletion are *)
(* client goroutines.  Goroutines of the same kind are interchangeable, so *)
(* the model keeps how many of them stand at each position.                *)
(***************************************************************************)
EXTENDS Naturals, Sequences, FiniteSets

\* Request values: the empty string (the zero value of d.hash and lastHash)
\* and two distinct non-empty hashes.
Values == {"", "h1", "h2"}

\* How a Hook implementation answers Do(ctx, v): always nil, always an
\* error, or either (an error on some attempts, nil on others).
HookKinds == {"ok", "fail", "flaky"}

\* Capacity of hookData.ch: make(chan struct{}, 1).
EventsCap == 1

\* Capacities of the hasCompletedOnce channel the caller may pass to
\* NewHookRunner: unbuffered or buffered with one slot.
CompletionCaps == {0, 1}

\* Bounds of the model.
NumProducers == 2   \* goroutines that may be inside Send at the same time
MaxSends == 3       \* Send calls in one behaviour
MaxCount == 2       \* counters of the model saturate here
MaxWaitCalls == 2   \* WaitForCompletion calls in one behaviour

VARIABLES
    dHash,        \* hookData.hash
    dCh,          \* number of events buffered in hookData.ch
    sending,      \* Send calls that have done d.set and not yet the select
    nSends,       \* Send calls started so far
    hook,         \* the Hook implementation: value -> kind of answer
    pc,           \* position of the Run goroutine
    hash,         \* Run's local `hash`
    lastHash,     \* Run's local `lastHash`
    err,          \* TRUE iff the last Do returned a non-nil error
    hasChan,      \* r.hasCompletedOnce != nil
    chanCap,      \* capacity of r.hasCompletedOnce
    chanBuf,      \* values buffered in r.hasCompletedOnce
    chanClosed,   \* r.hasCompletedOnce has been closed
    waiting,      \* WaitForCompletion calls blocked in the receive
    waitResults,  \* results of the WaitForCompletion calls, in order of return
    hookRunCount, \* the counter vector, by status
    doCalls,      \* invocations of hook.Do so far (saturating)
    firstOutcome, \* outcome of the first Do that returned
    chanLog,      \* every value sent on r.hasCompletedOnce, in order
    chanCloses    \* close(r.hasCompletedOnce) calls so far (saturating)

vars == <<dHash, dCh, sending, nSends, hook, pc, hash, lastHash, err, hasChan,
          chanCap, chanBuf, chanClosed, waiting, waitResults, hookRunCount,
          doCalls, firstOutcome, chanLog, chanCloses>>

slotVars == <<dHash, dCh>>
prodVars == <<sending, nSends>>
runVars == <<pc, hash, lastHash, err>>
chanVars == <<chanBuf, chanClosed>>
waitVars == <<waiting, waitResults>>
histVars == <<hookRunCount, doCalls, firstOutcome, chanLog, chanCloses>>
confVars == <<hook, hasChan, chanCap>>

Inc(n) == IF n < MaxCount THEN n + 1 ELSE n

\* Run's `hash` and `err` are declared inside the retry loop (lines 125 and
\* 130): outside an iteration they hold nothing, written "" and FALSE here.
\* `hash` is kept through the backoff sleep, as the value that just failed.
NoHash == ""

----
\* NewHookData, NewHookRunner and the entry of Run: the zero hash, an empty
\* event channel, lastHash == "", no metric counted.
InitState ==
    /\ dHash = ""
    /\ dCh = 0
    /\ sending = 0
    /\ nSends = 0
    /\ pc = "idle"
    /\ hash = ""
    /\ lastHash = ""
    /\ err = FALSE
    /\ chanBuf = <<>>
    /\ chanClosed = FALSE
    /\ waiting = 0
    /\ waitResults = <<>>
    /\ hookRunCount = [success |-> 0, error |-> 0]
    /\ doCalls = 0
    /\ firstOutcome = "none"
    /\ chanLog = <<>>
    /\ chanCloses = 0

Init ==
    /\ InitState
    /\ hook \in [Values -> HookKinds]
    /\ hasChan \in BOOLEAN
    /\ chanCap \in IF hasChan THEN CompletionCaps ELSE {0}

----
\* hookData.get
get == dHash

\* Mutant of set: a value already stored is never overwritten.
set_NoOverwrite(newHash) == dHash' = IF dHash = "" THEN newHash ELSE dHash

\* hookData.set
set(newHash) == dHash' = newHash

\* Mutant of SendSet: send stores the value and returns without the select
\* on d.ch.
SendSet_NoNotify(newHash) ==
    /\ nSends < MaxSends
    /\ sending < NumProducers
    /\ set(newHash)
    /\ nSends' = nSends + 1
    /\ UNCHANGED <<dCh, sending, runVars, chanVars, waitVars, histVars, confVars>>

\* hookData.send, first half: d.set(newHash).
SendSet(newHash) ==
    /\ nSends < MaxSends
    /\ sending < NumProducers
    /\ set(newHash)
    /\ sending' = sending + 1
    /\ nSends' = nSends + 1
    /\ UNCHANGED <<dCh, runVars, chanVars, waitVars, histVars, confVars>>

\* Mutant of SendNotify: a blocking send on d.ch in place of the select with
\* a default case.
SendNotify_Blocking ==
    /\ sending > 0
    /\ dCh < EventsCap
    /\ dCh' = dCh + 1
    /\ sending' = sending - 1
    /\ UNCHANGED <<dHash, nSends, runVars, chanVars, waitVars, histVars, confVars>>

\* Mutant of SendNotify: the event is only queued while the consumer is
\* blocked on the channel.
SendNotify_OnlyIfIdle ==
    /\ sending > 0
    /\ dCh' = IF dCh < EventsCap /\ pc = "idle" THEN dCh + 1 ELSE dCh
    /\ sending' = sending - 1
    /\ UNCHANGED <<dHash, nSends, runVars, chanVars, waitVars, histVars, confVars>>

\* hookData.send, second half: the non-blocking select on d.ch.
SendNotify ==
    /\ sending > 0
    /\ dCh' = IF dCh < EventsCap THEN dCh + 1 ELSE dCh
    /\ sending' = sending - 1
    /\ UNCHANGED <<dHash, nSends, runVars, chanVars, waitVars, histVars, confVars>>

----
\* Mutant of RunEvent: the loop does not wait for an event (a `for` in place
\* of the `for range` over the channel).
RunEvent_NoWait ==
    /\ pc = "idle"
    /\ dCh' = IF dCh > 0 THEN dCh - 1 ELSE dCh
    /\ pc' = "get"
    /\ UNCHANGED <<dHash, prodVars, hash, lastHash, err, chanVars, waitVars,
                   histVars, confVars>>

\* Run, line 119: receive one event from r.data.events().
RunEvent ==
    /\ pc = "idle"
    /\ dCh > 0
    /\ dCh' = dCh - 1
    /\ pc' = "get"
    /\ UNCHANGED <<dHash, prodVars, hash, lastHash, err, chanVars, waitVars,
                   histVars, confVars>>

\* Mutant of RunGet: after the backoff the failed value is retried without
\* fetching the latest one.
RunGet_StaleRetry ==
    /\ pc \in {"get", "reget"}
    /\ LET h == IF pc = "reget" THEN hash ELSE get
       IN  IF h = lastHash
             THEN pc' = "idle" /\ hash' = NoHash /\ doCalls' = doCalls
             ELSE pc' = "do" /\ hash' = h /\ doCalls' = Inc(doCalls)
    /\ UNCHANGED <<slotVars, prodVars, lastHash, err, chanVars, waitVars,
                   hookRunCount, firstOutcome, chanLog, chanCloses, confVars>>

\* Mutant of RunGet: no comparison with lastHash, every wake-up runs the hook.
RunGet_NoSkip ==
    /\ pc \in {"get", "reget"}
    /\ hash' = get
    /\ pc' = "do"
    /\ doCalls' = Inc(doCalls)
    /\ UNCHANGED <<slotVars, prodVars, lastHash, err, chanVars, waitVars,
                   hookRunCount, firstOutcome, chanLog, chanCloses, confVars>>

\* Run, lines 125-130: fetch the latest value; skip when it equals lastHash,
\* otherwise call hook.Do with it.
RunGet ==
    /\ pc \in {"get", "reget"}
    /\ IF get = lastHash
         THEN pc' = "idle" /\ hash' = NoHash /\ doCalls' = doCalls
         ELSE pc' = "do" /\ hash' = get /\ doCalls' = Inc(doCalls)
    /\ UNCHANGED <<slotVars, prodVars, lastHash, err, chanVars, waitVars,
                   hookRunCount, firstOutcome, chanLog, chanCloses, confVars>>

\* Hook.Do returns: e is TRUE for a non-nil error.
DoReturns(e) ==
    /\ pc = "do"
    /\ err' = e
    /\ pc' = "result"
    /\ firstOutcome' = IF firstOutcome = "none"
                         THEN (IF e THEN "error" ELSE "success")
                         ELSE firstOutcome
    /\ UNCHANGED <<slotVars, prodVars, hash, lastHash, chanVars, waitVars,
                   hookRunCount, doCalls, chanLog, chanCloses, confVars>>

HookDoFail ==
    /\ hook[hash] \in {"fail", "flaky"}
    /\ DoReturns(TRUE)

HookDoOk ==
    /\ hook[hash] \in {"ok", "flaky"}
    /\ DoReturns(FALSE)

\* updateHookRunCountMetric
updateHookRunCountMetric(status) ==
    hookRunCount' = [hookRunCount EXCEPT ![status] = Inc(@)]

\* Mutant of RunResult: a failed execution is logged but not counted.
RunResult_NoErrorMetric ==
    /\ pc = "result"
    /\ IF err
         THEN /\ hookRunCount' = hookRunCount
              /\ lastHash' = lastHash
         ELSE /\ updateHookRunCountMetric("success")
              /\ lastHash' = hash
    /\ pc' = "report"
    /\ UNCHANGED <<slotVars, prodVars, hash, err, chanVars, waitVars, doCalls,
                   firstOutcome, chanLog, chanCloses, confVars>>

\* Mutant of RunResult: lastHash is set to the latest stored value instead
\* of the value that was executed.
RunResult_RecordLatest ==
    /\ pc = "result"
    /\ IF err
         THEN /\ updateHookRunCountMetric("error")
              /\ lastHash' = lastHash
         ELSE /\ updateHookRunCountMetric("success")
              /\ lastHash' = get
    /\ pc' = "report"
    /\ UNCHANGED <<slotVars, prodVars, hash, err, chanVars, waitVars, doCalls,
                   firstOutcome, chanLog, chanCloses, confVars>>

\* Mutant of RunResult: a success does not record lastHash.
RunResult_NoRecord ==
    /\ pc = "result"
    /\ IF err
         THEN updateHookRunCountMetric("error")
         ELSE updateHookRunCountMetric("success")
    /\ lastHash' = lastHash
    /\ pc' = "report"
    /\ UNCHANGED <<slotVars, prodVars, hash, err, chanVars, waitVars, doCalls,
                   firstOutcome, chanLog, chanCloses, confVars>>

\* Run, lines 131-132 (error) and 137-138 (success), up to the call of
\* sendCompletedOnceMessageIfApplicable.
RunResult ==
    /\ pc = "result"
    /\ IF err
         THEN /\ updateHookRunCountMetric("error")
              /\ lastHash' = lastHash
         ELSE /\ updateHookRunCountMetric("success")
              /\ lastHash' = hash
    /\ pc' = "report"
    /\ UNCHANGED <<slotVars, prodVars, hash, err, chanVars, waitVars, doCalls,
                   firstOutcome, chanLog, chanCloses, confVars>>

\* Mutant of AfterReport: a failure retries at once, without time.Sleep.
AfterReport_NoSleep == IF err THEN "reget" ELSE "idle"

\* Mutant of AfterReport: a failure leaves the retry loop like a success.
AfterReport_NoRetry == "idle"

\* Where Run continues when sendCompletedOnceMessageIfApplicable returns:
\* time.Sleep after an error, `break` to the range loop after a success.
AfterReport == IF err THEN "sleep" ELSE "idle"

\* sendCompletedOnceMessageIfApplicable with r.hasCompletedOnce == nil:
\* does nothing and returns.
ReportNil ==
    /\ pc = "report"
    /\ ~hasChan
    /\ pc' = AfterReport
    /\ hash' = IF pc' = "sleep" THEN hash ELSE NoHash
    /\ err' = FALSE
    /\ UNCHANGED <<slotVars, prodVars, lastHash, chanVars, waitVars,
                   histVars, confVars>>

\* Mutant of completedSuccessfully: success is reported whatever the outcome.
completedSuccessfully_True == TRUE

\* The value sendCompletedOnceMessageIfApplicable is called with.
completedSuccessfully == ~err

\* r.hasCompletedOnce <- completedSuccessfully, into the buffer.  A send on a
\* closed channel panics.
ReportBuffer ==
    /\ pc = "report"
    /\ hasChan
    /\ IF chanClosed
         THEN /\ pc' = "panic"
              /\ UNCHANGED <<chanBuf, chanLog>>
         ELSE /\ Len(chanBuf) < chanCap
              /\ chanBuf' = Append(chanBuf, completedSuccessfully)
              /\ chanLog' = Append(chanLog, completedSuccessfully)
              /\ pc' = "close"
    /\ UNCHANGED <<slotVars, prodVars, hash, lastHash, err, chanClosed,
                   waitVars, hookRunCount, doCalls, firstOutcome, chanCloses,
                   confVars>>

\* Mutant of WaitResult: the received boolean is not looked at.
WaitResult_Ignore(exechookChannelFinishedSuccessfully) == "nil"

\* The result WaitForCompletion makes of the received boolean.
WaitResult(exechookChannelFinishedSuccessfully) ==
    IF exechookChannelFinishedSuccessfully THEN "nil" ELSE "errCompletedWithError"

\* r.hasCompletedOnce <- completedSuccessfully, handed directly to a
\* WaitForCompletion call blocked in the receive, which then returns.
ReportHandOff ==
    /\ pc = "report"
    /\ hasChan
    /\ ~chanClosed
    /\ chanBuf = <<>>
    /\ waiting > 0
    /\ chanLog' = Append(chanLog, completedSuccessfully)
    /\ waiting' = waiting - 1
    /\ waitResults' = Append(waitResults, WaitResult(completedSuccessfully))
    /\ pc' = "close"
    /\ UNCHANGED <<slotVars, prodVars, hash, lastHash, err, chanVars,
                   hookRunCount, doCalls, firstOutcome, chanCloses, confVars>>

\* Mutant of AfterClose: no runtime.Goexit(), the call returns to Run.
AfterClose_NoGoexit == AfterReport

\* Where the goroutine stands after close(r.hasCompletedOnce) and the
\* runtime.Goexit() that follows it.
AfterClose == "exited"

\* close(r.hasCompletedOnce); runtime.Goexit().  Closing a closed channel
\* panics.
ReportClose ==
    /\ pc = "close"
    /\ IF chanClosed
         THEN pc' = "panic"
         ELSE pc' = AfterClose
    /\ chanClosed' = TRUE
    /\ chanCloses' = Inc(chanCloses)
    /\ hash' = IF pc' = "sleep" THEN hash ELSE NoHash
    /\ err' = FALSE
    /\ UNCHANGED <<slotVars, prodVars, lastHash, chanBuf, waitVars,
                   hookRunCount, doCalls, firstOutcome, chanLog, confVars>>

\* time.Sleep(r.backoff) returns; the retry loop goes back to line 125.
SleepDone ==
    /\ pc = "sleep"
    /\ pc' = "reget"
    /\ UNCHANGED <<slotVars, prodVars, hash, lastHash, err, chanVars, waitVars,
                   histVars, confVars>>

----
\* Mutant of WaitMisuse: no nil check; the receive from a nil channel blocks.
WaitMisuse_NoNilCheck ==
    /\ ~hasChan
    /\ waiting + Len(waitResults) < MaxWaitCalls
    /\ waiting' = waiting + 1
    /\ UNCHANGED <<slotVars, prodVars, runVars, chanVars, waitResults,
                   histVars, confVars>>

\* WaitForCompletion, lines 165-167: r.hasCompletedOnce == nil returns the
\* "called on async runner" error at once.
WaitMisuse ==
    /\ ~hasChan
    /\ waiting + Len(waitResults) < MaxWaitCalls
    /\ waitResults' = Append(waitResults, "errAsyncRunner")
    /\ UNCHANGED <<slotVars, prodVars, runVars, chanVars, waiting, histVars,
                   confVars>>

\* WaitForCompletion, line 170: the call reaches the receive and blocks.
WaitCall ==
    /\ hasChan
    /\ waiting + Len(waitResults) < MaxWaitCalls
    /\ waiting' = waiting + 1
    /\ UNCHANGED <<slotVars, prodVars, runVars, chanVars, waitResults,
                   histVars, confVars>>

\* WaitForCompletion, lines 170-175: the receive yields a buffered value, or
\* the zero value false once the channel is closed and drained.
WaitReceive ==
    /\ waiting > 0
    /\ \/ /\ chanBuf # <<>>
          /\ waitResults' = Append(waitResults, WaitResult(Head(chanBuf)))
          /\ chanBuf' = Tail(chanBuf)
       \/ /\ chanBuf = <<>>
          /\ chanClosed
          /\ waitResults' = Append(waitResults, WaitResult(FALSE))
          /\ chanBuf' = chanBuf
    /\ waiting' = waiting - 1
    /\ UNCHANGED <<slotVars, prodVars, runVars, chanClosed, histVars, confVars>>

----
Producer == (\E v \in Values : SendSet(v)) \/ SendNotify

Runner ==
    \/ RunEvent \/ RunGet \/ RunResult \/ SleepDone
    \/ ReportNil \/ ReportBuffer \/ ReportHandOff \/ ReportClose

Waiter == WaitMisuse \/ WaitCall \/ WaitReceive

Next == Producer \/ Runner \/ HookDoFail \/ HookDoOk \/ Waiter

Spec == Init /\ [][Next]_vars

\* The specification of the liveness properties.  Under the fairness below a
\* hook that always succeeds on a value behaves as a flaky one may, so the
\* hooks are drawn from those that always fail or are flaky on each value.
\* The Go scheduler runs every runnable goroutine: a Send that has stored its
\* value reaches its select, the Run goroutine takes its next step, a sleep
\* ends, a call of Do returns, and a receive that can complete does.  A
\* flaky hook does not fail on every one of infinitely many attempts, and
\* the client that passed a completion channel calls WaitForCompletion.
FairInit ==
    /\ InitState
    /\ hook \in [Values -> {"fail", "flaky"}]
    /\ hasChan \in BOOLEAN
    /\ chanCap \in IF hasChan THEN CompletionCaps ELSE {0}

FairSpec ==
    /\ FairInit
    /\ [][Next]_vars
    /\ WF_vars(SendNotify)
    /\ WF_vars(Runner)
    /\ WF_vars(HookDoFail \/ HookDoOk)
    /\ SF_vars(HookDoOk)
    /\ WF_vars(WaitCall)
    /\ WF_vars(WaitReceive)

----
\* The value v is the one stored by the last Send so far, and no Send is
\* between its store and its notification.
LastSent(v) == sending = 0 /\ dHash = v

\* C1 (as claimed, for every Runner): after a burst of Send calls, if the
\* Action does not fail forever on the last stored value, that value is
\* eventually executed successfully: lastHash comes to equal it (unless a
\* further Send starts first).
C1_Original ==
    \A v \in Values :
        (LastSent(v) /\ hook[v] # "fail") ~> (lastHash = v \/ ~LastSent(v))

\* C1 (amended): the same, for a Runner constructed without a completion
\* receiver.
C1_Coalescing ==
    \A v \in Values :
        (~hasChan /\ LastSent(v) /\ hook[v] # "fail")
            ~> (lastHash = v \/ ~LastSent(v))

\* A burst of MaxSends Send calls ended with one successful execution, of
\* the last value, on a Runner without a completion receiver.
C1_Witness ==
    /\ ~hasChan
    /\ nSends = MaxSends
    /\ sending = 0
    /\ dHash # ""
    /\ lastHash = dHash
    /\ doCalls = 1
    /\ hookRunCount.success = 1
    /\ pc = "idle"

----
\* What the retry loop does after time.Sleep when it steps: it runs the hook
\* on the latest stored value, or goes back to the range loop when that
\* value equals lastHash.
RetryStep ==
    (pc = "reget" /\ pc' # "reget") =>
        IF dHash = lastHash
          THEN pc' = "idle"
          ELSE pc' = "do" /\ hash' = dHash

\* C2 (as claimed, for every Runner, with or without a completion receiver):
\* after a failed execution the Runner sleeps and then fetches the latest
\* value again, it retries that value unless it equals lastProcessed, and a
\* failure never ends the Run goroutine.
C2_Original ==
    /\ ((pc = "result" /\ err) ~> (pc = "reget"))
    /\ [][RetryStep]_vars
    /\ [](hookRunCount.error > 0 => pc # "exited")

\* C2 (amended): the same for a Runner constructed without a completion
\* receiver.
C2_IndefiniteRetry ==
    /\ ((~hasChan /\ pc = "result" /\ err) ~> (pc = "reget"))
    /\ [][~hasChan => RetryStep]_vars
    /\ [](~hasChan => pc \notin {"exited", "panic"})

\* A Runner without a completion receiver makes a third attempt after two
\* failures.
C2_Witness ==
    /\ ~hasChan
    /\ hookRunCount.error >= 2
    /\ pc = "do"
    /\ hash = dHash

\* C3: when the Runner leaves BackoffWait and the stored value differs from
\* the value that just failed and from lastProcessed, the next execution is
\* of the stored value, not of the failed one.
C3_Supersession ==
    [][(pc = "reget" /\ pc' # "reget" /\ dHash \notin {hash, lastHash})
          => (pc' = "do" /\ hash' = dHash /\ hash' # hash)]_vars

\* h1 (the only value the hook fails on) failed once, h2 was stored during
\* the backoff, and the second execution is of h2.
C3_Witness ==
    /\ hook = [v \in Values |-> IF v = "h1" THEN "fail" ELSE "ok"]
    /\ lastHash = ""
    /\ hookRunCount = [success |-> 0, error |-> 1]
    /\ doCalls = 2
    /\ pc = "do"
    /\ hash = "h2"

\* C4: the Action is never running with a value equal to lastProcessed, and
\* while the stored value equals lastProcessed no step starts an execution.
C4_NoRedundantExecution ==
    /\ [](pc \in {"do", "result"} => hash # lastHash)
    /\ [][(dHash = lastHash /\ pc # "do") => (pc' # "do" /\ doCalls' = doCalls)]_vars

\* A wake-up after the stored value was executed successfully: the Runner is
\* about to fetch a value equal to lastProcessed.
C4_Witness ==
    /\ pc = "get"
    /\ lastHash # ""
    /\ dHash = lastHash
    /\ sending = 0
    /\ hookRunCount.success = 1
    /\ doCalls = 1

\* C5: with a completion receiver, the channel is written at most once and
\* closed at most once, never after its close; the written boolean is the
\* outcome of the first execution; and once the Runner is past the report,
\* it has been written exactly once (closed exactly once when the goroutine
\* has ended).
C5_OneShotChannel ==
    hasChan =>
        /\ Len(chanLog) <= 1
        /\ chanCloses <= 1
        /\ pc # "panic"
        /\ (chanClosed <=> chanCloses = 1)
        /\ (chanCloses = 1 => Len(chanLog) = 1)
        /\ (chanLog # <<>> =>
              /\ firstOutcome # "none"
              /\ chanLog[1] = (firstOutcome = "success"))
        /\ (pc \in {"close", "exited"} => Len(chanLog) = 1)
        /\ (pc = "exited" => chanCloses = 1)
        /\ (firstOutcome # "none" => pc \in {"result", "report", "close", "exited"})

\* The first execution failed; false was written once and the channel closed.
C5_Witness ==
    /\ hasChan
    /\ firstOutcome = "error"
    /\ chanLog = <<FALSE>>
    /\ chanClosed
    /\ pc = "exited"

\* C6: with a completion receiver, the WaitForCompletion call that returns
\* first returns only after the first execution has finished, and returns
\* nil exactly when that execution succeeded.
C6_WaitReflectsFirst ==
    (hasChan /\ waitResults # <<>>) =>
        /\ firstOutcome # "none"
        /\ pc \in {"close", "exited"}
        /\ (waitResults[1] = "nil" <=> firstOutcome = "success")

\* The first execution failed and WaitForCompletion returned its error.
C6_Witness ==
    /\ hasChan
    /\ firstOutcome = "error"
    /\ waitResults = <<"errCompletedWithError">>

\* C7 (as claimed): after the first outcome has been written to the
\* completion channel the Run goroutine is still consuming, and a value sent
\* later is eventually executed.
C7_Original ==
    /\ []((hasChan /\ chanLog # <<>>) => pc # "exited")
    /\ \A v \in Values :
         (hasChan /\ chanLog # <<>> /\ LastSent(v) /\ hook[v] # "fail")
             ~> (lastHash = v \/ ~LastSent(v))

\* C7 (amended): after the first outcome has been written the Runner closes
\* the channel and its goroutine ends; it never starts a second execution,
\* and once ended it changes neither lastProcessed nor the metrics, whatever
\* is sent later.
C7_RunnerEndsAfterReport ==
    /\ []((hasChan /\ chanLog # <<>>) => pc \in {"close", "exited"})
    /\ [](hasChan => (doCalls <= 1
                      /\ hookRunCount.success + hookRunCount.error <= 1))
    /\ [][pc = "exited" =>
            (pc' = "exited" /\ lastHash' = lastHash
             /\ hookRunCount' = hookRunCount /\ doCalls' = doCalls)]_vars
    /\ ((hasChan /\ chanLog # <<>>) ~> (pc = "exited"))

\* The goroutine has ended after one execution while a later Send of a
\* value the hook does not always fail on has completed and left its event pending.
C7_Witness ==
    /\ hasChan
    /\ pc = "exited"
    /\ nSends >= 2
    /\ sending = 0
    /\ dCh = 1
    /\ dHash # lastHash
    /\ hook[dHash] # "fail"
    /\ doCalls = 1

\* C8: without a completion receiver no WaitForCompletion call ever blocks,
\* every call returns the misuse error, a call can return in every state,
\* and the step in which it returns changes nothing else.
C8_WaitMisuse ==
    /\ [](~hasChan =>
            /\ waiting = 0
            /\ \A i \in 1..Len(waitResults) : waitResults[i] = "errAsyncRunner"
            /\ (Len(waitResults) < MaxWaitCalls => ENABLED WaitMisuse))
    /\ [][(~hasChan /\ waitResults' # waitResults) =>
            /\ waitResults' = Append(waitResults, "errAsyncRunner")
            /\ UNCHANGED <<slotVars, prodVars, runVars, chanVars, waiting,
                           histVars, confVars>>]_vars

\* WaitForCompletion returned the misuse error before any Send.
C8_Witness ==
    /\ ~hasChan
    /\ waitResults = <<"errAsyncRunner">>
    /\ nSends = 0
    /\ pc = "idle"

----
\* The Action always succeeds.
AlwaysSucceeds == \A v \in Values : hook[v] = "ok"

\* Nothing is left to do: no Send is in progress, no event is pending and
\* the Run goroutine is blocked on the event channel or has ended.
Quiescent == sending = 0 /\ dCh = 0 /\ pc \in {"idle", "exited"}

\* One Send(dHash) on a fresh Runner whose Action always succeeds: at most
\* one execution, of the value sent, no failure; exactly one execution and
\* lastProcessed == dHash once the system is at rest; and the first
\* WaitForCompletion call to return, on a Runner with a receiver, returns nil.
SingleSendRunsOnce ==
    /\ doCalls <= 1
    /\ hookRunCount.success <= 1
    /\ hookRunCount.error = 0
    /\ (pc \in {"do", "result"} => hash = dHash)
    /\ (hookRunCount.success = 1 => lastHash = dHash)
    /\ (Quiescent =>
          (doCalls = 1 /\ hookRunCount.success = 1 /\ lastHash = dHash))
    /\ ((hasChan /\ waitResults # <<>>) => waitResults[1] = "nil")

\* C9 (as claimed, for every value, the empty string included).
C9_Original == (AlwaysSucceeds /\ nSends = 1) => SingleSendRunsOnce

\* C9 (amended): the claim for every non-empty value; after Send("") on a
\* fresh Runner the wake-up is skipped: no execution, lastProcessed stays "",
\* nothing is counted and no WaitForCompletion call of a Runner with a
\* receiver returns.
C9_SingleSend ==
    (AlwaysSucceeds /\ nSends = 1) =>
        IF dHash # ""
          THEN SingleSendRunsOnce
          ELSE /\ doCalls = 0
               /\ lastHash = ""
               /\ hookRunCount = [success |-> 0, error |-> 0]
               /\ pc \in {"idle", "get"}
               /\ (hasChan => waitResults = <<>>)

\* Send("h1") alone, Action always succeeding, on a Runner with a receiver:
\* one execution, lastProcessed == "h1", WaitForCompletion returned nil.
C9_Witness ==
    /\ AlwaysSucceeds
    /\ nSends = 1
    /\ dHash = "h1"
    /\ Quiescent
    /\ hasChan
    /\ doCalls = 1
    /\ lastHash = "h1"
    /\ waitResults = <<"nil">>

----
\* The two-value scenario: a Runner without a completion receiver, an Action
\* that fails for H1 and succeeds for every other value, and one producer
\* that calls Send(H1) and then Send(H2).
H1 == CHOOSE v \in Values : hook[v] = "fail"
H2 == CHOOSE v \in Values \ {"", H1} : TRUE

InitTwo ==
    /\ InitState
    /\ \E f \in Values \ {""} :
         hook = [v \in Values |-> IF v = f THEN "fail" ELSE "ok"]
    /\ hasChan = FALSE
    /\ chanCap = 0

\* The producer's next call: Send(H1), then Send(H2) once Send(H1) returned.
TwoSend ==
    /\ nSends < 2
    /\ sending = 0
    /\ SendSet(IF nSends = 0 THEN H1 ELSE H2)

\* Send(H2) has returned.
BothSent == nSends = 2 /\ sending = 0

\* The scenario's timing: a backoff sleep does not end before Send(H2) has
\* returned.
TwoSleepDone == BothSent /\ SleepDone

NextTwo ==
    \/ TwoSend \/ SendNotify
    \/ RunEvent \/ RunGet \/ HookDoFail \/ HookDoOk \/ RunResult \/ ReportNil
    \/ TwoSleepDone
    \/ WaitMisuse

SpecTwo == InitTwo /\ [][NextTwo]_vars

\* C10: in the two-value scenario at most one execution fails (the one of
\* H1), at most one succeeds (the one of H2), nothing is executed after the
\* success, lastProcessed is only ever "" or H2, and once the system is at
\* rest after both Sends there was exactly one success and lastProcessed
\* is H2.
C10_TwoValues ==
    /\ hookRunCount.error <= 1
    /\ hookRunCount.success <= 1
    /\ (pc \in {"do", "result"} =>
          /\ hookRunCount.success = 0
          /\ (hash = H1 => hookRunCount.error = 0)
          /\ hash \in {H1, H2})
    /\ lastHash \in {"", H2}
    /\ (hookRunCount.success = 1 => lastHash = H2)
    /\ ((BothSent /\ Quiescent) =>
          (hookRunCount.success = 1 /\ lastHash = H2))

\* Both Sends returned, H1 failed once, H2 succeeded once, and the Runner is
\* at rest with lastProcessed == H2.
C10_Witness ==
    /\ BothSent
    /\ Quiescent
    /\ hookRunCount = [success |-> 1, error |-> 1]
    /\ lastHash = H2

----
\* A step that starts an execution of the Action.
DoStarts == pc # "do" /\ pc' = "do"

\* C11: while no Send has been called the Runner stays blocked in Idle with
\* nothing executed and nothing counted; an execution only starts after a
\* Send, with the value the slot then holds; and the slot's value is only
\* ever changed by the store of a Send, so that value is one a Send stored.
C11_NoSendNoWork ==
    /\ [](nSends = 0 =>
            /\ pc = "idle"
            /\ dHash = "" /\ dCh = 0
            /\ doCalls = 0
            /\ hookRunCount = [success |-> 0, error |-> 0]
            /\ firstOutcome = "none"
            /\ ~ENABLED (Runner \/ HookDoFail \/ HookDoOk))
    /\ [][DoStarts => (nSends > 0 /\ hash' = dHash /\ hash' # lastHash)]_vars
    /\ [][dHash' # dHash => (nSends' = nSends + 1 /\ sending' = sending + 1)]_vars
    /\ [](pc \in {"do", "result"} => (nSends > 0 /\ (hash = "" => lastHash # "")))

\* No Send was called, a WaitForCompletion call is blocked, and the Runner
\* is still idle with zero counters.
C11_Witness ==
    /\ nSends = 0
    /\ hasChan
    /\ waiting = MaxWaitCalls
    /\ pc = "idle"
    /\ hookRunCount = [success |-> 0, error |-> 0]

----
\* A step of a Send call (its store or its notification).
SendStep == nSends' # nSends \/ sending' # sending

\* C12: the step that leaves a failed execution's report enters BackoffWait
\* (or, with a completion receiver, the close that ends the goroutine);
\* BackoffWait is only left by the end of the sleep, towards the fetch, and
\* never into an execution; the fetch after a failure is only reached from
\* BackoffWait; and a step of a Send moves the Runner nowhere, so a value
\* stored during the backoff is only picked up by the fetch after it.
C12_BackoffBetweenFailures ==
    /\ [][(pc = "report" /\ err /\ pc' # "report")
            => pc' \in (IF hasChan THEN {"close"} ELSE {"sleep"})]_vars
    /\ [][(pc = "sleep" /\ pc' # "sleep")
            => (pc' = "reget" /\ UNCHANGED <<dHash, dCh, hash, lastHash>>)]_vars
    /\ [][(pc # "reget" /\ pc' = "reget") => pc = "sleep"]_vars
    /\ [][DoStarts => pc \in {"get", "reget"}]_vars
    /\ [][SendStep => UNCHANGED <<pc, hash, lastHash, err>>]_vars
    /\ [](pc \in {"sleep", "reget"} => (~hasChan /\ hookRunCount.error > 0))

\* The backoff after a failure has ended; a Send stored a different value
\* and queued its event during it, and the Runner is about to fetch.
C12_Witness ==
    /\ pc = "reget"
    /\ hookRunCount.error = 1
    /\ dHash # hash
    /\ dCh = 1
    /\ sending = 0

----
\* C13: at most one notification is ever pending; in every state a Send
\* that has stored its value can make its notification attempt, which ends
\* the call, queues at most one event and touches nothing but the event
\* channel; and a new Send can store its value in every state.
C13_SendNeverBlocks ==
    /\ [](dCh <= EventsCap)
    /\ [](sending > 0 => ENABLED SendNotify)
    /\ []((nSends < MaxSends /\ sending < NumProducers)
            => \A v \in Values : ENABLED SendSet(v))
    /\ [][(sending' = sending - 1)
            => /\ dCh' = (IF dCh = EventsCap THEN dCh ELSE dCh + 1)
               /\ UNCHANGED <<dHash, nSends, runVars, chanVars, waitVars,
                              histVars, confVars>>]_vars
    /\ [][(nSends' # nSends)
            => /\ nSends' = nSends + 1
               /\ sending' = sending + 1
               /\ UNCHANGED <<dCh, runVars, chanVars, waitVars, histVars,
                              confVars>>]_vars

\* Every Send has returned although the event channel is full and the Run
\* goroutine is blocked sending on an unbuffered completion channel that
\* nobody reads.
C13_Witness ==
    /\ nSends = MaxSends
    /\ sending = 0
    /\ dCh = EventsCap
    /\ pc = "report"
    /\ hasChan
    /\ chanCap = 0
    /\ waiting = 0

----
\* The status label of the execution that has just returned.
Status == IF err THEN "error" ELSE "success"

\* Executions started and not yet counted.
Uncounted == IF pc \in {"do", "result"} THEN 1 ELSE 0

\* C14: the step that leaves a returned execution increments the counter of
\* its status, once, and no other; the counters change in no other step (a
\* skipped wake-up, a report, a sleep and a Send count nothing); so, below
\* the saturation of the model's counters, whenever no execution is in
\* progress (a new one is about to start, or the goroutine has ended) the
\* two counters add up to the executions made; and a Runner with a receiver
\* has counted its first execution under that execution's outcome before it
\* reports it.
C14_MetricsMatchExecutions ==
    /\ [][(pc = "result" /\ pc' # "result")
            => hookRunCount' = [hookRunCount EXCEPT ![Status] = Inc(@)]]_vars
    /\ [][(hookRunCount' # hookRunCount) => (pc = "result" /\ pc' = "report")]_vars
    /\ [](doCalls < MaxCount
            => hookRunCount.success + hookRunCount.error + Uncounted = doCalls)
    /\ []((hasChan /\ pc \in {"report", "close", "exited"})
            => hookRunCount = [success |-> IF firstOutcome = "success" THEN 1 ELSE 0,
                               error |-> IF firstOutcome = "error" THEN 1 ELSE 0])

\* A Runner with a receiver has ended after a failed first execution, which
\* was counted once as an error.
C14_Witness ==
    /\ hasChan
    /\ pc = "exited"
    /\ firstOutcome = "error"
    /\ doCalls = 1
    /\ hookRunCount = [success |-> 0, error |-> 1]

----
\* C15: on a Runner without a completion receiver, whenever the Runner is
\* blocked on the event channel, no event is pending and no Send is between
\* its store and its notification, the stored value equals lastProcessed.
C15_NoLostWakeup ==
    (~hasChan /\ pc = "idle" /\ dCh = 0 /\ sending = 0) => dHash = lastHash

\* The Runner rests in Idle after MaxSends Sends, one failed execution and
\* one successful one, with the last stored value processed.
C15_Witness ==
    /\ ~hasChan
    /\ pc = "idle"
    /\ dCh = 0
    /\ sending = 0
    /\ nSends = MaxSends
    /\ dHash = lastHash
    /\ lastHash # ""
    /\ hookRunCount = [success |-> 1, error |-> 1]

\* C16: lastProcessed changes only in the step that follows a successful
\* return of Do, where it becomes the value Do was called with, whatever the
\* slot holds by then; that value is the one fetched before the call; every
\* other step (after a failure, a skipped wake-up, the end of a sleep, a
\* Send) leaves lastProcessed unchanged; and the stored value is changed by
\* the store of a Send only, never by a step of the Runner.
C16_Frame ==
    /\ [][(lastHash' # lastHash)
            => (pc = "result" /\ ~err /\ pc' = "report" /\ lastHash' = hash)]_vars
    /\ [][(pc = "result" /\ pc' # "result")
            => lastHash' = (IF err THEN lastHash ELSE hash)]_vars
    /\ [][(pc \in {"do", "result"}) => hash' = hash]_vars
    /\ [][(dHash' # dHash)
            => (nSends' = nSends + 1 /\ UNCHANGED <<pc, hash, lastHash, err>>)]_vars

\* An execution succeeded after a Send had replaced the stored value:
\* lastProcessed is the executed value, not the stored one.
C16_Witness ==
    /\ pc = "report"
    /\ ~err
    /\ lastHash = hash
    /\ dHash # hash
    /\ hookRunCount.success = 1

----
\* C17: on a Runner with a completion receiver every WaitForCompletion call
\* that has returned gave the same result as the first one: nil exactly
\* when the first execution succeeded.
C17_ConsistentAcrossCalls ==
    hasChan =>
        \A i \in 1..Len(waitResults) :
            /\ waitResults[i] = waitResults[1]
            /\ (waitResults[i] = "nil" <=> firstOutcome = "success")
====
